---------------------------- MODULE Spec2Model ----------------------------
(***************************************************************************)
(* A model of dnb_crawl's main.py: the run of main (configuration load,    *)
(* browser session, login, navigate, extract, cleanup, failure handler,    *)
(* driver.quit) and, inside extract, the per-account sweep / reconcile     *)
(* loop, combine and the residual cleanup.                                 *)
(*                                                                         *)
(* Abstractions.                                                           *)
(*  - A string is a sequence of one-character strings.                     *)
(*  - A file of the download directory is the record of what the three     *)
(*    regular expressions of main.py can tell apart in its stem:           *)
(*      digits : the digit group in front of "_-_" (the account number),   *)
(*      ym     : the <YYYY>-<MM> field as [year, month], month in 0..99,   *)
(*      form   : "day"   <digits>_-_<YYYY>-<MM>-<DD>_-_Kontoutskrift       *)
(*               "dup"   the same with the browser's "(1)" before ".pdf"   *)
(*               "month" <digits>_-_<YYYY>-<MM> and nothing more.          *)
(*    Account numbers are short digit strings here; the \d{11} group of    *)
(*    the patterns is the digits field.                                    *)
(*  - The browser and the remote site are the environment: every wait and  *)
(*    lookup of the code is a nondeterministic choice among the outcomes   *)
(*    selenium can produce there, and a clicked download arrives in the    *)
(*    directory at any later moment while the session is open.             *)
(*  - date.today() and datetime.now() give the same calendar month during  *)
(*    one run.                                                             *)
(***************************************************************************)
EXTENDS Integers, Sequences, FiniteSets, TLC

\* Downloads of one (account, month) that can be in flight at once; further
\* clicks are absorbed (their files would fall in the "dup" class anyway).
MaxInflight == 1
\* Files already in the download directory when the program starts.
MaxStray == 1
\* Width, in months, of the widest extraction window of the main model.
MaxBack == 2
\* Offsets to fetch (months times accounts) of the largest extraction.
MaxWork == 2

VARIABLES
    pc,        \* position of main / extract
    raw,       \* the configuration document, as loaded by yaml (date strings)
    today,     \* date.today()
    config,    \* Config.extractions after from_dict (dates parsed)
    session,   \* the webdriver: "none", "open", "closed"
    ei,        \* index of `extraction` in config.extractions (line 213)
    ai,        \* index of `account` in extraction.accounts (line 218)
    months_,   \* months_ of extract (line 216)
    months,    \* months of extract (line 219), the pending offsets
    idx,       \* position of the list iterator of `for month in months`
    exc,       \* the exception being propagated / handled, or NoExc
    status,    \* how main ended: "running", "config_error", "finished", "crashed"
    disk,      \* the *.pdf statement files of the download directory
    inflight,  \* downloads clicked and not yet arrived
    output,    \* consolidated documents written by combine: basename -> pages
    log,       \* whether the diagnostic log file was written
    noresult,  \* history: <<ei, ai, month>> that took the "no results" branch
    selected,  \* history: <<ei, ai>> whose account was selected (line 227 passed)
    combineCalled, \* history: <<ei, ai>> for which line 265 called combine
    cleaned,   \* history: cleanup() ran to its end
    snapshot,  \* history: months as it was when the running sweep started
    attempted, \* history: the offsets the running sweep attempted, in order
    clicked,   \* history: the offsets whose link the running sweep clicked, in order
    clicks     \* history: <<month, again>> the link of line 246 was clicked for
               \* this account (again: it had been clicked before)

progVars == <<pc, config, session, ei, ai, months_, months, idx, exc, status>>
envVars  == <<raw, today, disk, inflight, output, log>>
histVars == <<noresult, selected, combineCalled, cleaned, snapshot, attempted, clicked, clicks>>
vars == <<pc, raw, today, config, session, ei, ai, months_, months, idx, exc,
          status, disk, inflight, output, log, noresult, selected, combineCalled,
          cleaned, snapshot, attempted, clicked, clicks>>

---------------------------------------------------------------------------
(* Strings, dates *)

Digits == {"0", "1", "2", "3", "4", "5", "6", "7", "8", "9"}

DigitVal(c) ==
    CASE c = "0" -> 0 [] c = "1" -> 1 [] c = "2" -> 2 [] c = "3" -> 3
      [] c = "4" -> 4 [] c = "5" -> 5 [] c = "6" -> 6 [] c = "7" -> 7
      [] c = "8" -> 8 [] c = "9" -> 9

\* int(s) succeeds
IsInt(s) == Len(s) > 0 /\ \A i \in DOMAIN s : s[i] \in Digits

RECURSIVE IntOf(_)
IntOf(s) ==
    IF s = <<>> THEN 0
    ELSE 10 * IntOf(SubSeq(s, 1, Len(s) - 1)) + DigitVal(s[Len(s)])

ValueError == [error |-> "ValueError"]

\* datetime.date(year, month, day) with day = 1
MkDate(year, month) ==
    IF year \in 1..9999 /\ month \in 1..12
    THEN [year |-> year, month |-> month, day |-> 1]
    ELSE ValueError

\* datestr_to_str: "MM/YYYY" -> date(year, month, 1)
datestr_to_str(date_str) ==
    LET mm == SubSeq(date_str, 1, 2)
        yy == SubSeq(date_str, 4, Len(date_str))
    IN  IF IsInt(mm) /\ IsInt(yy) THEN MkDate(IntOf(yy), IntOf(mm)) ELSE ValueError

num_months(m1, m2) == (m1.year - m2.year) * 12 + m1.month - m2.month

\* (mutant) the stop bound is included
RECURSIVE RangeInclusive(_, _)
RangeInclusive(start, stop) ==
    IF start >= stop THEN <<start>> \o RangeInclusive(start - 1, stop) ELSE <<>>

\* list(range(start, stop, -1))
RECURSIVE Range(_, _)
Range(start, stop) ==
    IF start > stop THEN <<start>> \o Range(start - 1, stop) ELSE <<>>

\* datetime.strptime(ym, "%Y-%m")
strptime(ym) == MkDate(ym.year, ym.month)

\* account.id.replace('.', '')
NotDot(c) == c # "."
Normalize(id) == SelectSeq(id, NotDot)

\* f"{account.name}" if account.name else f"{account.id}"
basename(account) == IF account.name # <<>> THEN account.name ELSE account.id

\* (mutant) list.pop(): the last element goes, whatever x is
Pop(s, x) == SubSeq(s, 1, Len(s) - 1)

\* list.remove(x): the first occurrence goes
RECURSIVE Remove(_, _)
Remove(s, x) ==
    IF s = <<>> THEN <<>>
    ELSE IF Head(s) = x THEN Tail(s) ELSE <<Head(s)>> \o Remove(Tail(s), x)

InSeq(x, s) == \E i \in DOMAIN s : s[i] = x

---------------------------------------------------------------------------
(* The three file patterns *)

StatementForms == {"day", "dup", "month"}

\* re.compile('(\d{11})_-_(\d{4}-\d{2}).*').search(file.stem)
ExtractPattern(f) == f.form \in {"day", "dup", "month"}

\* (mutant) the month-level prefix pattern of extract is used for the merge
CombinePatternMonthLevel(account, f) ==
    f.form \in {"day", "dup", "month"} /\ f.digits = Normalize(account.id)

\* re.compile(f"{id}_-_\d{4}-\d{2}-\d{2}_-_Kontoutskrift").fullmatch(x.stem)
CombinePattern(account, f) == f.form = "day" /\ f.digits = Normalize(account.id)

\* re.compile('(\d{11})_-_(\d{4}-\d{2})(\(\d+\))?.*').search(file.stem)
CleanupPattern(f) == f.form \in {"day", "dup", "month"}

\* sorted(files): the stems of one account differ in the date field only
SortKey(f) == f.ym.year * 100 + f.ym.month

RECURSIVE Sorted(_)
Sorted(S) ==
    IF S = {} THEN <<>>
    ELSE LET f == CHOOSE x \in S : \A y \in S : SortKey(x) <= SortKey(y)
         IN  <<f>> \o Sorted(S \ {f})

---------------------------------------------------------------------------
(* Inputs: the configuration document, today, the download directory *)

DigitChar(n) ==
    CASE n = 0 -> "0" [] n = 1 -> "1" [] n = 2 -> "2" [] n = 3 -> "3"
      [] n = 4 -> "4" [] n = 5 -> "5" [] n = 6 -> "6" [] n = 7 -> "7"
      [] n = 8 -> "8" [] n = 9 -> "9"

\* The "MM/YYYY" text of a month, as generate.py writes it ("01/2022")
DateStr(year, month) ==
    << DigitChar(month \div 10), DigitChar(month % 10), "/",
       DigitChar(year \div 1000), DigitChar((year \div 100) % 10),
       DigitChar((year \div 10) % 10), DigitChar(year % 10) >>

\* The calendar month n months before date d (the remote site's statement
\* period for search interval index n)
MonthBack(d, n) ==
    LET t == d.year * 12 + (d.month - 1) - n
    IN  [year |-> t \div 12, month |-> (t % 12) + 1]

AccountA == [id |-> <<"1", ".", "1">>, name |-> <<"s">>]
AccountB == [id |-> <<"2", "2">>, name |-> <<>>]
Accounts == {AccountA, AccountB}

Today0 == [year |-> 2024, month |-> 1, day |-> 31]

\* An extraction of the configuration document whose window starts s months
\* and stops e months before Today0
RawExtraction(s, e, accs) ==
    [start |-> DateStr(MonthBack(Today0, s).year, MonthBack(Today0, s).month),
     stop  |-> DateStr(MonthBack(Today0, e).year, MonthBack(Today0, e).month),
     accounts |-> accs]

\* Offsets to fetch that an extraction asks for
Work(s, e, accs) == IF s > e THEN (s - e) * Len(accs) ELSE 0

RawConfigs ==
    { <<RawExtraction(x[1], x[2], x[3])>> :
        x \in { y \in (0..MaxBack) \X (0..MaxBack) \X {<<AccountA>>, <<AccountA, AccountB>>} :
                  Work(y[1], y[2], y[3]) <= MaxWork } }
    \cup
    { <<RawExtraction(1, 0, <<a>>), RawExtraction(1, 0, <<b>>)>> : a \in Accounts, b \in Accounts }
    \cup
    { <<[start |-> <<"1", "3", "/", "2", "0", "2", "3">>,
         stop  |-> DateStr(2024, 1), accounts |-> <<AccountA>>]>>,
      <<[start |-> <<"1", "/", "2", "0", "2", "3">>,
         stop  |-> DateStr(2024, 1), accounts |-> <<AccountA>>]>> }

File(digits, ym, form) == [digits |-> digits, ym |-> ym, form |-> form]

\* Files that may lie in the download directory before the run
StrayFiles ==
    { File(<<"1", "1">>, MonthBack(Today0, 1), "month"),
      File(<<"1", "1">>, MonthBack(Today0, 1), "day"),
      File(<<"1", "1">>, MonthBack(Today0, 1), "dup"),
      File(<<"1", "1">>, [year |-> 2023, month |-> 13], "day"),
      File(<<"9", "9">>, MonthBack(Today0, 1), "day") }

NoExc == [kind |-> "none", at |-> "none", line |-> 0]

\* Downloads that can be asked for: (account digits, month offset)
Requests == { <<Normalize(a.id), m>> : a \in Accounts, m \in 0..(MaxBack + 1) }

Init ==
    /\ pc = "load"
    /\ raw \in RawConfigs
    /\ today = Today0
    /\ config = <<>>
    /\ session = "none"
    /\ ei = 1
    /\ ai = 1
    /\ months_ = <<>>
    /\ months = <<>>
    /\ idx = 1
    /\ exc = NoExc
    /\ status = "running"
    /\ disk \in { S \in SUBSET StrayFiles : Cardinality(S) <= MaxStray }
    /\ inflight = [r \in Requests |-> 0]
    /\ output = {}
    /\ log = FALSE
    /\ noresult = {}
    /\ selected = {}
    /\ combineCalled = {}
    /\ cleaned = FALSE
    /\ snapshot = <<>>
    /\ attempted = <<>>
    /\ clicked = <<>>
    /\ clicks = {}

---------------------------------------------------------------------------
(* main, lines 302-356 *)

\* An exception leaves the try block of main (line 341 catches BaseException)
Raise(kind, at, line) ==
    /\ pc' = "handler"
    /\ exc' = [kind |-> kind, at |-> at, line |-> line]

ParsedExtraction(r) ==
    [start |-> datestr_to_str(r.start), stop |-> datestr_to_str(r.stop),
     accounts |-> r.accounts]

\* (mutant) a window whose start-date is earlier than its stop-date is refused
ConfigParsesOrdered ==
    \A i \in DOMAIN raw :
        /\ datestr_to_str(raw[i].start) # ValueError
        /\ datestr_to_str(raw[i].stop) # ValueError
        /\ num_months(datestr_to_str(raw[i].stop), datestr_to_str(raw[i].start)) <= 0

ConfigParses ==
    \A i \in DOMAIN raw :
        datestr_to_str(raw[i].start) # ValueError /\ datestr_to_str(raw[i].stop) # ValueError

\* lines 316-322: from_dict with the date type hook
LoadConfig ==
    /\ pc = "load"
    /\ ConfigParses
    /\ config' = [i \in DOMAIN raw |-> ParsedExtraction(raw[i])]
    /\ pc' = "driver"
    /\ UNCHANGED <<session, ei, ai, months_, months, idx, exc, status>>
    /\ UNCHANGED envVars
    /\ UNCHANGED histVars

\* lines 324-329: the configuration does not load; main returns
LoadConfigError ==
    /\ pc = "load"
    /\ ~ConfigParses
    /\ pc' = "done"
    /\ status' = "config_error"
    /\ UNCHANGED <<config, session, ei, ai, months_, months, idx, exc>>
    /\ UNCHANGED envVars
    /\ UNCHANGED histVars

\* line 334: driver = webdriver.Firefox(**configure())
StartDriver ==
    /\ pc = "driver"
    /\ session' = "open"
    /\ pc' = "login"
    /\ UNCHANGED <<config, ei, ai, months_, months, idx, exc, status>>
    /\ UNCHANGED envVars
    /\ UNCHANGED histVars

\* line 337: login returns
Login ==
    /\ pc = "login"
    /\ pc' = "navigate"
    /\ UNCHANGED <<config, session, ei, ai, months_, months, idx, exc, status>>
    /\ UNCHANGED envVars
    /\ UNCHANGED histVars

\* line 337: login raises (lines 134, 153, 186: an element is missing or a wait times out)
LoginRaise ==
    /\ pc = "login"
    /\ \E k \in {"TimeoutException", "NoSuchElementException"} : Raise(k, "login", 337)
    /\ UNCHANGED <<config, session, ei, ai, months_, months, idx, status>>
    /\ UNCHANGED envVars
    /\ UNCHANGED histVars

\* line 338: navigate returns; extract starts its loop over the extractions
Navigate ==
    /\ pc = "navigate"
    /\ pc' = "extract"
    /\ ei' = 1
    /\ UNCHANGED <<config, session, ai, months_, months, idx, exc, status>>
    /\ UNCHANGED envVars
    /\ UNCHANGED histVars

\* line 338: navigate raises (lines 193-206)
NavigateRaise ==
    /\ pc = "navigate"
    /\ \E k \in {"TimeoutException", "NoSuchElementException"} : Raise(k, "navigate", 338)
    /\ UNCHANGED <<config, session, ei, ai, months_, months, idx, status>>
    /\ UNCHANGED envVars
    /\ UNCHANGED histVars

---------------------------------------------------------------------------
(* extract, lines 208-265 *)

Extraction == config[ei]
Account == config[ei].accounts[ai]

\* lines 213-216: the next extraction; its offsets
NextExtraction ==
    /\ pc = "extract"
    /\ ei <= Len(config)
    /\ months_' = Range(num_months(today, Extraction.start), num_months(today, Extraction.stop))
    /\ ai' = 1
    /\ pc' = "account"
    /\ UNCHANGED <<config, session, ei, months, idx, exc, status>>
    /\ UNCHANGED envVars
    /\ UNCHANGED histVars

\* line 213: no extraction is left; extract returns
ExtractReturn ==
    /\ pc = "extract"
    /\ ei > Len(config)
    /\ pc' = "cleanup"
    /\ UNCHANGED <<config, session, ei, ai, months_, months, idx, exc, status>>
    /\ UNCHANGED envVars
    /\ UNCHANGED histVars

\* lines 218-227: the next account; its copy of the offsets; the account is selected
SelectAccount ==
    /\ pc = "account"
    /\ ai <= Len(Extraction.accounts)
    /\ months' = months_
    /\ pc' = "while"
    /\ selected' = selected \cup {<<ei, ai>>}
    /\ snapshot' = <<>>
    /\ attempted' = <<>>
    /\ clicked' = <<>>
    /\ clicks' = {}
    /\ UNCHANGED <<config, session, ei, ai, months_, idx, exc, status>>
    /\ UNCHANGED envVars
    /\ UNCHANGED <<noresult, combineCalled, cleaned>>

\* lines 221-227: a wait times out or the account is not an option of the select
SelectAccountRaise ==
    /\ pc = "account"
    /\ ai <= Len(Extraction.accounts)
    /\ \/ Raise("TimeoutException", "extract", 221)
       \/ Raise("NoSuchElementException", "extract", 227)
    /\ months' = months_
    /\ UNCHANGED <<config, session, ei, ai, months_, idx, status>>
    /\ UNCHANGED envVars
    /\ UNCHANGED histVars

\* line 218: no account is left in this extraction
AccountsExhausted ==
    /\ pc = "account"
    /\ ai > Len(Extraction.accounts)
    /\ ei' = ei + 1
    /\ pc' = "extract"
    /\ UNCHANGED <<config, session, ai, months_, months, idx, exc, status>>
    /\ UNCHANGED envVars
    /\ UNCHANGED histVars

\* lines 231-232: months is not empty; a sweep starts, iterating months itself
SweepStart ==
    /\ pc = "while"
    /\ months # <<>>
    /\ idx' = 1
    /\ pc' = "for"
    /\ snapshot' = months
    /\ attempted' = <<>>
    /\ clicked' = <<>>
    /\ UNCHANGED <<config, session, ei, ai, months_, months, exc, status>>
    /\ UNCHANGED envVars
    /\ UNCHANGED <<noresult, selected, combineCalled, cleaned, clicks>>

\* line 231: months is empty; line 265 follows
PendingEmpty ==
    /\ pc = "while"
    /\ months = <<>>
    /\ pc' = "combine"
    /\ combineCalled' = combineCalled \cup {<<ei, ai>>}
    /\ UNCHANGED <<config, session, ei, ai, months_, months, idx, exc, status>>
    /\ UNCHANGED envVars
    /\ UNCHANGED <<noresult, selected, cleaned, snapshot, attempted, clicked, clicks>>

\* The list iterator of line 232 has an element left
InSweep == pc = "for" /\ idx <= Len(months)
month == months[idx]
Request == <<Normalize(Account.id), month>>

Min(a, b) == IF a <= b THEN a ELSE b

\* The download asked for by one more click
Clicked(fl, r) == [fl EXCEPT ![r] = Min(@ + 1, MaxInflight)]

\* (mutant) the click counts as the download: the offset is removed at once
AttemptClickRemoves ==
    /\ InSweep
    /\ inflight' = Clicked(inflight, Request)
    /\ months' = Remove(months, month)
    /\ idx' = idx + 1
    /\ attempted' = Append(attempted, month)
    /\ clicked' = Append(clicked, month)
    /\ clicks' = clicks \cup {<<month, \E c \in clicks : c[1] = month>>}
    /\ UNCHANGED <<pc, config, session, ei, ai, months_, exc, status>>
    /\ UNCHANGED <<raw, today, disk, output, log>>
    /\ UNCHANGED <<noresult, selected, combineCalled, cleaned, snapshot>>

\* lines 234-246: the link is there and is clicked; months is left as it is
AttemptClick ==
    /\ InSweep
    /\ inflight' = Clicked(inflight, Request)
    /\ idx' = idx + 1
    /\ attempted' = Append(attempted, month)
    /\ clicked' = Append(clicked, month)
    /\ clicks' = clicks \cup {<<month, \E c \in clicks : c[1] = month>>}
    /\ UNCHANGED <<pc, config, session, ei, ai, months_, months, exc, status>>
    /\ UNCHANGED <<raw, today, disk, output, log>>
    /\ UNCHANGED <<noresult, selected, combineCalled, cleaned, snapshot>>

\* lines 247-250: the wait of line 244 ended on userInformationView, the link
\* is not there; the offset is removed from the list being iterated
AttemptNoResults ==
    /\ InSweep
    /\ months' = Remove(months, month)
    /\ idx' = idx + 1
    /\ noresult' = noresult \cup {<<ei, ai, month>>}
    /\ attempted' = Append(attempted, month)
    /\ UNCHANGED <<pc, config, session, ei, ai, months_, exc, status>>
    /\ UNCHANGED envVars
    /\ UNCHANGED <<selected, combineCalled, cleaned, snapshot, clicked, clicks>>

\* lines 251-253: a wait of lines 234, 239 or 244 timed out
AttemptTimeout ==
    /\ InSweep
    /\ idx' = idx + 1
    /\ attempted' = Append(attempted, month)
    /\ UNCHANGED <<pc, config, session, ei, ai, months_, months, exc, status>>
    /\ UNCHANGED envVars
    /\ UNCHANGED <<noresult, selected, combineCalled, cleaned, snapshot, clicked, clicks>>

\* Exceptions no handler of the sweep catches: the offset is no option of the
\* select (line 237), the submit button is gone (line 240), or the label read
\* by the print of a handler is missing (lines 249, 252)
AttemptRaise ==
    /\ InSweep
    /\ \E l \in {237, 240, 249, 252} : Raise("NoSuchElementException", "extract", l)
    /\ UNCHANGED <<config, session, ei, ai, months_, months, idx, status>>
    /\ UNCHANGED envVars
    /\ UNCHANGED histVars

\* line 232: the iterator is exhausted; the directory scan follows
SweepEnd ==
    /\ pc = "for"
    /\ idx > Len(months)
    /\ pc' = "reconcile"
    /\ UNCHANGED <<config, session, ei, ai, months_, months, idx, exc, status>>
    /\ UNCHANGED envVars
    /\ UNCHANGED histVars

\* line 262, left operand: the file is one of this account
OfAccount(account, f) == ExtractPattern(f) /\ f.digits = Normalize(account.id)

\* line 262: strptime raises ValueError on a month that is none
ReconcileRaises(account, files) ==
    \E f \in files : OfAccount(account, f) /\ strptime(f.ym) = ValueError

\* (mutant) only the files combine would merge are counted
OnDiskDayOnly(account, files) ==
    { num_months(today, strptime(f.ym)) :
        f \in { g \in files : CombinePattern(account, g) /\ strptime(g.ym) # ValueError } }

\* line 262: the offsets the files of this account stand for
OnDisk(account, files) ==
    { num_months(today, strptime(f.ym)) :
        f \in { g \in files : OfAccount(account, g) /\ strptime(g.ym) # ValueError } }

\* (mutant) the account of the file is not compared
ReconciledAnyAccount(ms, account, files) ==
    SelectSeq(ms, LAMBDA m : m \notin { num_months(today, strptime(f.ym)) :
        f \in { g \in files : ExtractPattern(g) /\ strptime(g.ym) # ValueError } })

\* lines 255-263: months after the scan
Reconciled(ms, account, files) ==
    SelectSeq(ms, LAMBDA m : m \notin OnDisk(account, files))

Reconcile ==
    /\ pc = "reconcile"
    /\ ~ReconcileRaises(Account, disk)
    /\ months' = Reconciled(months, Account, disk)
    /\ pc' = "while"
    /\ snapshot' = <<>>
    /\ attempted' = <<>>
    /\ clicked' = <<>>
    /\ UNCHANGED <<config, session, ei, ai, months_, idx, exc, status>>
    /\ UNCHANGED envVars
    /\ UNCHANGED <<noresult, selected, combineCalled, cleaned, clicks>>

ReconcileRaise ==
    /\ pc = "reconcile"
    /\ ReconcileRaises(Account, disk)
    /\ Raise("ValueError", "extract", 262)
    /\ UNCHANGED <<config, session, ei, ai, months_, months, idx, status>>
    /\ UNCHANGED envVars
    /\ UNCHANGED histVars

---------------------------------------------------------------------------
(* combine, lines 267-287 *)

\* line 278
CombineFiles(account, files) == { f \in files : CombinePattern(account, f) }

\* lines 280-287: the document written for the account
Merged(account, files) ==
    [name |-> basename(account), pages |-> Sorted(CombineFiles(account, files))]

\* What combine leaves of the download directory (it unlinks nothing)
AfterCombine(account, files) == files

\* lines 265-287: combine returns; the next account follows
Combine ==
    /\ pc = "combine"
    /\ output' = { o \in output : o.name # basename(Account) } \cup {Merged(Account, disk)}
    /\ disk' = AfterCombine(Account, disk)
    /\ ai' = ai + 1
    /\ pc' = "account"
    /\ UNCHANGED <<config, session, ei, months_, months, idx, exc, status>>
    /\ UNCHANGED <<raw, today, inflight, log>>
    /\ UNCHANGED histVars

\* line 283: a source file is no readable PDF; line 286: the output cannot be written
CombineRaise ==
    /\ pc = "combine"
    /\ \/ CombineFiles(Account, disk) # {} /\ Raise("PdfReadError", "combine", 283)
       \/ Raise("OSError", "combine", 286)
    /\ UNCHANGED <<config, session, ei, ai, months_, months, idx, status>>
    /\ UNCHANGED envVars
    /\ UNCHANGED histVars

---------------------------------------------------------------------------
(* cleanup, lines 289-300 *)

CleanupFiles(files) == { f \in files : CleanupPattern(f) }

\* line 340: cleanup returns
Cleanup ==
    /\ pc = "cleanup"
    /\ disk' = disk \ CleanupFiles(disk)
    /\ cleaned' = TRUE
    /\ pc' = "quit"
    /\ UNCHANGED <<config, session, ei, ai, months_, months, idx, exc, status>>
    /\ UNCHANGED <<raw, today, inflight, output, log>>
    /\ UNCHANGED <<noresult, selected, combineCalled, snapshot, attempted, clicked, clicks>>

\* line 300: unlink raises on one file, after some of the others went
CleanupRaise ==
    /\ pc = "cleanup"
    /\ \E f \in CleanupFiles(disk) :
         \E D \in SUBSET (CleanupFiles(disk) \ {f}) : disk' = disk \ D
    /\ Raise("OSError", "cleanup", 300)
    /\ UNCHANGED <<config, session, ei, ai, months_, months, idx, status>>
    /\ UNCHANGED <<raw, today, inflight, output, log>>
    /\ UNCHANGED histVars

---------------------------------------------------------------------------
(* the failure handler and the end of main, lines 341-356 *)

\* lines 342-349: the log is written; breakpoint() follows
HandlerLog ==
    /\ pc = "handler"
    /\ log' = TRUE
    /\ pc' = "breakpoint"
    /\ UNCHANGED <<config, session, ei, ai, months_, months, idx, exc, status>>
    /\ UNCHANGED <<raw, today, disk, inflight, output>>
    /\ UNCHANGED histVars

\* line 345: the log cannot be opened or written; the exception leaves main
HandlerLogRaise ==
    /\ pc = "handler"
    /\ pc' = "done"
    /\ status' = "crashed"
    /\ exc' = [kind |-> "OSError", at |-> "handler", line |-> 345]
    /\ UNCHANGED <<config, session, ei, ai, months_, months, idx>>
    /\ UNCHANGED envVars
    /\ UNCHANGED histVars

\* line 349: the debugger is left with "continue" (or breakpoints are disabled)
BreakpointContinue ==
    /\ pc = "breakpoint"
    /\ pc' = "quit"
    /\ UNCHANGED <<config, session, ei, ai, months_, months, idx, exc, status>>
    /\ UNCHANGED envVars
    /\ UNCHANGED histVars

\* line 349: the debugger is left with "quit" or reads end of input: BdbQuit leaves main
BreakpointQuit ==
    /\ pc = "breakpoint"
    /\ pc' = "done"
    /\ status' = "crashed"
    /\ exc' = [kind |-> "BdbQuit", at |-> "handler", line |-> 349]
    /\ UNCHANGED <<config, session, ei, ai, months_, months, idx>>
    /\ UNCHANGED envVars
    /\ UNCHANGED histVars

\* line 351: driver.quit(); the browser ends and with it its downloads
Quit ==
    /\ pc = "quit"
    /\ session' = "closed"
    /\ inflight' = [r \in Requests |-> 0]
    /\ pc' = "unlink"
    /\ UNCHANGED <<config, ei, ai, months_, months, idx, exc, status>>
    /\ UNCHANGED <<raw, today, disk, output, log>>
    /\ UNCHANGED histVars

\* lines 353-356: geckodriver.log is removed, or the failure is printed
UnlinkLog ==
    /\ pc = "unlink"
    /\ pc' = "done"
    /\ status' = "finished"
    /\ UNCHANGED <<config, session, ei, ai, months_, months, idx, exc>>
    /\ UNCHANGED envVars
    /\ UNCHANGED histVars

---------------------------------------------------------------------------
(* the browser's downloads *)

\* The name the browser gives the next file of a request
Delivered(files, r) ==
    IF File(r[1], MonthBack(today, r[2]), "day") \in files
    THEN File(r[1], MonthBack(today, r[2]), "dup")
    ELSE File(r[1], MonthBack(today, r[2]), "day")

\* A download started by the click of line 246 arrives
Arrive ==
    /\ session = "open"
    /\ \E r \in Requests :
         /\ inflight[r] > 0
         /\ disk' = disk \cup {Delivered(disk, r)}
         /\ inflight' = [inflight EXCEPT ![r] = @ - 1]
    /\ UNCHANGED progVars
    /\ UNCHANGED <<raw, today, output, log>>
    /\ UNCHANGED histVars

---------------------------------------------------------------------------

Next ==
    \/ LoadConfig \/ LoadConfigError \/ StartDriver
    \/ Login \/ LoginRaise \/ Navigate \/ NavigateRaise
    \/ NextExtraction \/ ExtractReturn
    \/ SelectAccount \/ SelectAccountRaise \/ AccountsExhausted
    \/ SweepStart \/ PendingEmpty
    \/ AttemptClick \/ AttemptNoResults \/ AttemptTimeout \/ AttemptRaise \/ SweepEnd
    \/ Reconcile \/ ReconcileRaise
    \/ Combine \/ CombineRaise
    \/ Cleanup \/ CleanupRaise
    \/ HandlerLog \/ HandlerLogRaise \/ BreakpointContinue \/ BreakpointQuit
    \/ Quit \/ UnlinkLog
    \/ Arrive

Spec == Init /\ [][Next]_vars

---------------------------------------------------------------------------
(* Further specifications *)

\* The program keeps running, and a started download ends.
FairSpec == Init /\ [][Next]_vars /\ WF_vars(Next) /\ WF_vars(Arrive)

\* A collaborator that answers every attempt with one of the three outcomes of
\* the sweep (link, "no results", timeout) and never fails otherwise: login,
\* navigation, account selection and the lookups of an attempt do not raise.
CoopNext ==
    \/ LoadConfig \/ LoadConfigError \/ StartDriver
    \/ Login \/ Navigate
    \/ NextExtraction \/ ExtractReturn
    \/ SelectAccount \/ AccountsExhausted
    \/ SweepStart \/ PendingEmpty
    \/ AttemptClick \/ AttemptNoResults \/ AttemptTimeout \/ SweepEnd
    \/ Reconcile \/ ReconcileRaise
    \/ Combine \/ CombineRaise
    \/ Cleanup \/ CleanupRaise
    \/ HandlerLog \/ HandlerLogRaise \/ BreakpointContinue \/ BreakpointQuit
    \/ Quit \/ UnlinkLog
    \/ Arrive

CoopSpec == Init /\ [][CoopNext]_vars

\* The date-window resolver alone: extract entered with one window and one
\* account, for every today and every window of the years below, up to the
\* account's copy of the offsets (line 219).
BaseYear == 2023
NumYears == 2
Years == BaseYear..(BaseYear + NumYears - 1)
Todays == { [year |-> y, month |-> m, day |-> d] : y \in Years, m \in 1..12, d \in {1, 15, 28} }
MonthDates == { MkDate(y, m) : y \in Years, m \in 1..12 }

ResolverInit ==
    /\ pc = "extract"
    /\ raw = <<>>
    /\ today \in Todays
    /\ config \in { <<[start |-> a, stop |-> b, accounts |-> <<AccountA>>]>> :
                      a \in MonthDates, b \in MonthDates }
    /\ session = "open"
    /\ ei = 1
    /\ ai = 1
    /\ months_ = <<>>
    /\ months = <<>>
    /\ idx = 1
    /\ exc = NoExc
    /\ status = "running"
    /\ disk = {}
    /\ inflight = [r \in Requests |-> 0]
    /\ output = {}
    /\ log = FALSE
    /\ noresult = {}
    /\ selected = {}
    /\ combineCalled = {}
    /\ cleaned = FALSE
    /\ snapshot = <<>>
    /\ attempted = <<>>
    /\ clicked = <<>>
    /\ clicks = {}

ResolverNext == NextExtraction \/ SelectAccount

ResolverSpec == ResolverInit /\ [][ResolverNext]_vars

---------------------------------------------------------------------------
(* Claims *)

\* The statement period of offset m, as the claims count it
PeriodOf(m) == MonthBack(today, m)

\* Offset m of account i of extraction e is accounted for in the directory
\* `files` and the answers `nr`: the account has a statement file of that
\* month, or the remote site answered "no results" for it
Accounted(e, i, m, nr, files) ==
    \/ <<e, i, m>> \in nr
    \/ \E f \in files : /\ f.form \in StatementForms
                        /\ f.digits = Normalize(config[e].accounts[i].id)
                        /\ f.ym = PeriodOf(m)

\* C2: when combine is called for an account its pending list is empty and
\* every offset of the requested sequence is accounted for (a file of the
\* account for that month is on disk, or "no results" was signalled for it);
\* and a step of the sweep or of the reconciliation takes an offset out of the
\* pending list only if that offset is accounted for after the step.
C2_TerminalState ==
    [][ /\ (pc # "combine" /\ pc' = "combine") =>
             /\ months' = <<>>
             /\ \A k \in DOMAIN months_ : Accounted(ei, ai, months_[k], noresult', disk')
        /\ pc \in {"for", "reconcile"} =>
             \A k \in DOMAIN months :
                 InSeq(months[k], months') \/ Accounted(ei, ai, months[k], noresult', disk')
      ]_vars

\* combine is called for an account with one offset answered "no results" and
\* another one covered by a file
C2_Witness ==
    /\ pc = "combine"
    /\ \E k \in DOMAIN months_ : <<ei, ai, months_[k]>> \in noresult
    /\ \E k \in DOMAIN months_ : <<ei, ai, months_[k]>> \notin noresult


\* offset(a, b) of the claims
Offset(a, b) == 12 * (a.year - b.year) + (a.month - b.month)

\* start-date is not later than stop-date (both are first days of a month)
NotLater(a, b) == a.year < b.year \/ (a.year = b.year /\ a.month <= b.month)

\* C10: once extract has resolved a window whose start-date is not later than
\* its stop-date and has given the account its copy, the pending list is
\* offset(today, start), offset(today, start) - 1, ..., offset(today, stop) + 1:
\* its length is offset(today, start) - offset(today, stop) (zero when the two
\* dates are equal), its k-th element is offset(today, start) - (k - 1), so it
\* is strictly descending without duplicates and stays above offset(today,
\* stop), and the day of today plays no part in it.
C10_WindowResolution ==
    (pc = "while" /\ NotLater(Extraction.start, Extraction.stop)) =>
        /\ months = months_
        /\ Len(months) = Offset(today, Extraction.start) - Offset(today, Extraction.stop)
        /\ \A k \in DOMAIN months : months[k] = Offset(today, Extraction.start) - (k - 1)
        /\ \A k \in DOMAIN months : months[k] > Offset(today, Extraction.stop)
        /\ \A j \in DOMAIN months : \A k \in DOMAIN months : j < k => months[j] > months[k]
        /\ (Extraction.start = Extraction.stop => months = <<>>)

\* a window across a year boundary, resolved on a day that is not the first of
\* the month, to a list of more than twelve offsets, negative ones among them
C10_Witness ==
    /\ pc = "while"
    /\ today.day # 1
    /\ Extraction.start.year < Extraction.stop.year
    /\ Len(months) > 12
    /\ \E k \in DOMAIN months : months[k] < 0
    /\ \E k \in DOMAIN months : months[k] > 0

\* The offsets extraction e asks for
RequestedOffsets(e) ==
    (Offset(today, config[e].stop) + 1)..Offset(today, config[e].start)

\* C1: with a collaborator that answers every attempt and never fails, an
\* account whose every requested offset got its file or its "no results"
\* answer has had combine called for it when main has ended.  (The part of
\* the claim a finite run can refute: the loop ends with combine reached.)
C1_Convergence ==
    pc = "done" =>
        \A p \in selected :
            (\A m \in RequestedOffsets(p[1]) : Accounted(p[1], p[2], m, noresult, disk))
                => p \in combineCalled

\* C3: the sweep / reconcile loop is left for good after finitely many sweeps,
\* whatever the remote site answers, in particular when it times out forever.
C3_BoundedRetry == <>[](pc \notin {"while", "for", "reconcile"})

\* C4: when the next account starts, none of the files combine merged for the
\* account before it is still in the download directory.
C4_SourcesDeleted ==
    (pc = "account" /\ ai > 1) =>
        \A o \in output :
            o.name = basename(Extraction.accounts[ai - 1]) =>
                \A k \in DOMAIN o.pages : o.pages[k] \notin disk

\* C5: combine called with no file of the account matching the day-precision
\* pattern raises, and writes no document.
C5_EmptyMergeFails ==
    [][ (pc = "combine" /\ pc' # "combine" /\ CombineFiles(Account, disk) = {}) =>
            (pc' = "handler" /\ output' = output) ]_vars

\* C6: when combine raised for an account, every account of every extraction
\* has still been selected by the time main ends.
C6_MergeFailureIsolated ==
    (pc = "done" /\ exc.at = "combine") =>
        \A e \in DOMAIN config : \A i \in DOMAIN config[e].accounts : <<e, i>> \in selected

\* C7: when main has ended and nothing was raised, the download directory
\* holds no statement file, of any account, "(1)" variants included.
C7_DirectoryClean ==
    (pc = "done" /\ status = "finished" /\ exc = NoExc) =>
        \A f \in disk : f.form \notin StatementForms

\* C8: when main has ended after the session was created, driver.quit() has run.
C8_SessionReleased ==
    (pc = "done" /\ session # "none") => session = "closed"

\* C9: when main has ended after login, navigate or extract raised, cleanup() has run.
C9_CleanupOnAbort ==
    (pc = "done" /\ exc.at \in {"login", "navigate", "extract"}) => cleaned

\* start-date is earlier than stop-date
Earlier(a, b) == Offset(b, a) > 0

\* A window of the configuration document whose two dates parse, the
\* start-date to an earlier month than the stop-date
EarlierStart(r) ==
    /\ datestr_to_str(r.start) # ValueError
    /\ datestr_to_str(r.stop) # ValueError
    /\ Earlier(datestr_to_str(r.start), datestr_to_str(r.stop))

\* C11 (as stated): a configuration with a window whose start-date is earlier
\* than its stop-date is refused: no session is started, no offset sequence
\* is produced, no account is selected and no consolidation is attempted.
C11_EarlierStartRejected ==
    (\E i \in DOMAIN raw : EarlierStart(raw[i])) =>
        /\ session = "none"
        /\ months_ = <<>>
        /\ selected = {}
        /\ combineCalled = {}

\* C11 (amended): a window whose start-date is earlier than its stop-date is
\* not refused: while extract works on it the session is open and its offset
\* sequence has offset(stop-date, start-date) elements, so it is not empty.
\* The configuration error there is, a date that does not parse, is reported
\* before any session is started: no offset sequence is produced, no account
\* is selected and no consolidation is attempted.
C11_WindowAccepted ==
    /\ status = "config_error" =>
          /\ \E i \in DOMAIN raw :
                datestr_to_str(raw[i].start) = ValueError \/ datestr_to_str(raw[i].stop) = ValueError
          /\ session = "none"
          /\ months_ = <<>>
          /\ selected = {}
          /\ combineCalled = {}
    /\ (\E i \in DOMAIN raw : EarlierStart(raw[i])) => status # "config_error"
    /\ (pc \in {"account", "while", "for", "reconcile", "combine"}
          /\ Earlier(Extraction.start, Extraction.stop)) =>
          /\ session = "open"
          /\ Len(months_) = Offset(Extraction.stop, Extraction.start)
          /\ months_ # <<>>

\* combine is reached for an account of a window whose start-date is earlier
\* than its stop-date
C11_Witness ==
    /\ pc = "combine"
    /\ Earlier(Extraction.start, Extraction.stop)
    /\ <<ei, ai>> \in selected
    /\ months_ # <<>>

\* C12: a file whose stem is the account's digits and a month-level date and
\* nothing more (<digits>_-_<YYYY>-<MM>) satisfies the offset of its month for
\* that account in a reconciliation (the offset is not pending afterwards), is
\* no page of the document combine writes for the account, and is gone from
\* the directory when cleanup has returned.
C12_ExactVersusPrefix ==
    [][ /\ (pc = "reconcile" /\ pc' = "while") =>
             \A f \in disk :
                 (f.form = "month" /\ f.digits = Normalize(Account.id)) =>
                     ~InSeq(Offset(today, f.ym), months')
        /\ (pc = "combine" /\ pc' = "account") =>
             \A o \in output' :
                 o.name = basename(Account) =>
                     \A k \in DOMAIN o.pages : o.pages[k].form # "month"
        /\ (pc = "cleanup" /\ pc' = "quit") =>
             \A f \in disk' : f.form # "month"
      ]_vars

\* extract has returned: the only offset of the account was satisfied by a
\* month-only file, the account's document was written without a page, and
\* the file is still there for cleanup to delete
C12_Witness ==
    /\ pc = "cleanup"
    /\ noresult = {}
    /\ Len(months_) = 1
    /\ combineCalled = {<<1, 1>>}
    /\ disk = {File(Normalize(config[1].accounts[1].id), PeriodOf(months_[1]), "month")}
    /\ output = {[name |-> basename(config[1].accounts[1]), pages |-> <<>>]}

\* How often x occurs in the sequence s
Count(s, x) == Cardinality({ k \in DOMAIN s : s[k] = x })

\* C13: when a sweep has ended, every offset that was pending when it started
\* has been attempted exactly once in it, whatever was removed meanwhile.
C13_SweepSnapshot ==
    pc = "reconcile" =>
        \A k \in DOMAIN snapshot : Count(attempted, snapshot[k]) = 1

\* The sequence s without the element x
Without(s, x) == SelectSeq(s, LAMBDA m : m # x)

\* C14: inside a sweep the pending list changes in one way only: an attempt
\* that ends in "no results" takes the offset being attempted, and nothing
\* else, out of it; an attempt that ends with the click or with a timeout, and
\* every other step of the sweep, leaves it as it is.  The list of an account
\* never gains an offset, and no attempt is made for an offset that was
\* answered "no results" before for this account and window.
C14_SweepFrame ==
    [][ /\ (InSweep /\ pc' = "for" /\ attempted' # attempted) =>
             /\ <<ei, ai, month>> \notin noresult
             /\ attempted' = Append(attempted, month)
             /\ IF noresult' # noresult
                THEN /\ noresult' = noresult \cup {<<ei, ai, month>>}
                     /\ months' = Without(months, month)
                ELSE months' = months
        /\ (pc = "for" /\ attempted' = attempted) => months' = months
        /\ pc \in {"while", "for", "reconcile"} =>
             \A k \in DOMAIN months' : InSeq(months'[k], months)
      ]_vars

\* in the middle of a sweep of a two-month window: one offset was answered
\* "no results" and is gone, the link of the other one was clicked and that
\* offset is still pending
C14_Witness ==
    /\ pc = "for"
    /\ Len(months_) = 2
    /\ Len(months) = 1
    /\ \E k \in DOMAIN months_ : <<ei, ai, months_[k]>> \in noresult /\ ~InSeq(months_[k], months)
    /\ \E c \in clicks : InSeq(c[1], months) /\ InSeq(c[1], attempted)

\* C15: a reconciliation takes an offset out of the account's pending list if
\* and only if the directory holds a statement file with the account's
\* normalized digits and the year-month of that offset; what stays keeps its
\* place, the directory is left as it is, files of other accounts and several
\* files of one month change nothing in that; and the offsets of the window
\* are left alone while an account is worked on, so that the next account
\* starts from the full sequence.
C15_ReconcileExact ==
    [][ /\ (pc = "reconcile" /\ pc' = "while") =>
             /\ \A k \in DOMAIN months :
                    ~InSeq(months[k], months') <=>
                        \E f \in disk : /\ f.form \in StatementForms
                                        /\ f.digits = Normalize(Account.id)
                                        /\ f.ym = PeriodOf(months[k])
             /\ \A k \in DOMAIN months' : InSeq(months'[k], months)
             /\ \A j \in DOMAIN months' : \A k \in DOMAIN months' :
                    j < k => months'[j] > months'[k]
             /\ disk' = disk
        /\ pc \in {"while", "for", "reconcile", "combine"} => months_' = months_
        /\ (pc = "account" /\ pc' = "while") => months' = months_
      ]_vars

\* a reconciliation has just run on a two-month window: two files of the
\* account stand for one month (the download and its "(1)" duplicate), that
\* offset is gone and the other one, which has no file, is still pending
C15_Witness ==
    /\ pc = "while"
    /\ noresult = {}
    /\ Len(months_) = 2
    /\ Len(months) = 1
    /\ \E k \in DOMAIN months_ :
         /\ ~InSeq(months_[k], months)
         /\ File(Normalize(Account.id), PeriodOf(months_[k]), "day") \in disk
         /\ File(Normalize(Account.id), PeriodOf(months_[k]), "dup") \in disk
    /\ \A f \in disk : f.ym # PeriodOf(months[1])

\* C16: the reconciliation raises on no file of the directory: from the scan
\* of lines 255-263 the program goes on to the test of the while loop, with
\* the pending list it would have without any file whose year-month field is
\* no calendar month.
C16_ReconcileNeverRaises ==
    [][ pc = "reconcile" =>
          \/ pc' = "reconcile"
          \/ /\ pc' = "while"
             /\ months' = Reconciled(months, Account,
                                     { f \in disk : strptime(f.ym) # ValueError })
      ]_vars

\* C17: no failure of an attempt leaves the sweep: from an attempt the
\* program goes on inside the sweep (the next offset, or the scan that follows
\* the last one), with the offset removed or still pending.
C17_AttemptNeverEscalates ==
    [][ InSweep => pc' \in {"for", "reconcile"} ]_vars

\* C18: a timeout of the waits before the account is selected (lines 221-222)
\* does not end the run: when main has ended, the account it happened for has
\* been selected.
C18_SelectionRetried ==
    (pc = "done" /\ exc.kind = "TimeoutException" /\ exc.line = 221) =>
        <<ei, ai>> \in selected

\* C19: a delete that fails in cleanup is skipped: cleanup returns, every
\* other matching file is gone, and no failure of the run comes from cleanup.
C19_CleanupNeverFatal ==
    [][ pc = "cleanup" =>
          \/ pc' = "cleanup"
          \/ /\ pc' = "quit"
             /\ exc' = NoExc
             /\ Cardinality({ f \in disk' : CleanupPattern(f) }) <= 1
      ]_vars

\* C20 (as stated): for an account and an offset the link is clicked at most
\* once in a window.
C20_ClickedAtMostOnce ==
    \A c \in clicks : c[2] = FALSE

\* C20 (amended): for an account and an offset the link is clicked at most
\* once in a sweep, and only for an offset that is pending and was not
\* answered "no results"; the click leaves the offset pending, so that it is
\* clicked again in a later sweep as long as no reconciliation has seen a file
\* of its month.
C20_ClickOncePerSweep ==
    [][ (InSweep /\ pc' = "for" /\ clicked' # clicked) =>
            /\ clicked' = Append(clicked, month)
            /\ ~InSeq(month, clicked)
            /\ InSeq(month, snapshot)
            /\ <<ei, ai, month>> \notin noresult
            /\ months' = months
            /\ InSeq(month, months')
            /\ <<month, TRUE>> \in clicks' => <<month, FALSE>> \in clicks
      ]_vars

\* the link of an offset has just been clicked for the second time, in a later
\* sweep: the download of the first click had not arrived when the
\* reconciliation scanned the directory, and no file of that month is there yet
C20_Witness ==
    /\ pc = "for"
    /\ \E c \in clicks :
         /\ c[2] = TRUE
         /\ InSeq(c[1], clicked)
         /\ InSeq(c[1], months)
         /\ inflight[<<Normalize(Account.id), c[1]>>] > 0
         /\ \A f \in disk : f.ym # PeriodOf(c[1])

=============================================================================
